---- MODULE Spec2Model ----
(***************************************************************************)
(* Authentication and session lifecycle of the digitaloffices backend     *)
(* (Fastify + Prisma): register, login, Google sign-in, verify-email,     *)
(* resend-verification, refresh rotation, logout and deleteSelf.          *)
(*                                                                         *)
(* Every handler is split at its awaited database calls: one action per   *)
(* database round trip, so two requests interleave exactly where the      *)
(* Node event loop lets them.  A prisma.$transaction is one atomic step.  *)
(* Time is counted in quarter hours, the lifetime of an access token.     *)
(***************************************************************************)
EXTENDS Integers, Sequences, FiniteSets, TLC

\* ------------------------------------------------------------------ bounds
MaxUsers   == 2      \* Account rows ever created
MaxSecrets == 3      \* refresh secrets ever drawn from crypto.randomBytes(40)
MaxTokens  == 2      \* verification tokens ever drawn from crypto.randomBytes(32)
MaxEvents  == 4      \* HTTP requests accepted, clock advances and cleanup runs
                     \* in one behaviour
MaxPuts    == 2      \* PUT /api/experts/:id requests sent in one behaviour

\* --------------------------------------------------- program constants
AccessTtl  == 1      \* 15 minutes
VerifyTtl  == 96     \* 24 hours
SessionTtl == 672    \* 7 days
MaxAttempts == 5     \* draws of generateUniqueUsername before its fallback
CleanupAge == 96     \* 24 hours: the age at which the cleanup job removes

Procs == {1, 2}                       \* request slots the event loop interleaves
Emails == {"a@x.com", "b@x.com"}      \* deliverable addresses clients use
\* what uniqueNamesGenerator can produce (adjective-colour-animal)
Dictionary == {"happy-red-panda"}
\* addresses validateEmailStrict refuses: one per layer and outcome
BadEmails == {"not-an-email", "c@mailinator.com", "d@nomx.test", "e@nxdomain.test"}
\* register request bodies: every address and every initialRole occurs
RegisterBodies ==
    {[email |-> "a@x.com", initialRole |-> "USER"],
     [email |-> "a@x.com", initialRole |-> "EXPERT"],
     [email |-> "b@x.com", initialRole |-> "ORGANIZATION"]}
      \cup {[email |-> e, initialRole |-> "USER"] : e \in BadEmails}
Passwords == {"pw123456", "wrong-pw"}
RegPasswords == {"pw123456"}
GoogleSubs == {"g-sub-1"}
GoogleEmails == {"a@x.com"}           \* the address of that Google account
Pictures == {"pic-1", "pic-2"}        \* payload.picture of its assertions
\* clock advances: up to and just past each lifetime
TickSteps == {AccessTtl, VerifyTtl, VerifyTtl + AccessTtl,
              SessionTtl, SessionTtl + AccessTtl}
BadSecret == 0                        \* a cookie value the server never issued

\* ------------------------------------------------- validateEmailStrict
\* validator.validate(email)
ValidSyntax(email) == email # "not-an-email"
\* email.split('@')[1].toLowerCase()
DomainOf(email) ==
    CASE email = "c@mailinator.com" -> "mailinator.com"
      [] email = "d@nomx.test"      -> "nomx.test"
      [] email = "e@nxdomain.test"  -> "nxdomain.test"
      [] OTHER                      -> "x.com"
\* the disposable-email-domains list
disposableDomains == {"mailinator.com"}
\* dns.resolveMx(domain): the lookup throws, or returns this many records
resolveMx(domain) ==
    CASE domain = "nomx.test"     -> [throws |-> FALSE, records |-> 0]
      [] domain = "nxdomain.test" -> [throws |-> TRUE, records |-> 0]
      [] OTHER                    -> [throws |-> FALSE, records |-> 1]
\* variant: every address is accepted
validateEmailStrict_AcceptAll(email) == [isValid |-> TRUE, reason |-> ""]
validateEmailStrict(email) ==
    IF ~ValidSyntax(email)
    THEN [isValid |-> FALSE, reason |-> "Invalid email format"]
    ELSE IF DomainOf(email) \in disposableDomains
    THEN [isValid |-> FALSE, reason |-> "Disposable emails are not allowed"]
    ELSE IF resolveMx(DomainOf(email)).throws
    THEN [isValid |-> FALSE, reason |-> "Invalid domain"]
    ELSE IF resolveMx(DomainOf(email)).records = 0
    THEN [isValid |-> FALSE, reason |-> "Domain cannot receive emails"]
    ELSE [isValid |-> TRUE, reason |-> ""]

\* optional (nullable) values
None == <<>>
Some(x) == <<x>>
Val(o) == o[1]

\* ---------------------------------------------------------- hashing
\* bcrypt.hash / bcrypt.compare: one-way, compare succeeds on the same input
BcryptHash(pw) == <<"bcrypt", pw>>
BcryptCompare(pw, h) == h = <<"bcrypt", pw>>
\* crypto.createHash('sha256').update(secret).digest('hex'): injective
Sha256(secret) == <<"sha256", secret>>

\* `deleted_${crypto.randomBytes(8).toString('hex')}`: drawn afresh by every
\* anonymizing update; the random bytes are represented by the number n of
\* the request that draws them
AnonymizedSuffix(n) == "deleted_" \o ToString(n)
AnonymizedEmail(n) == AnonymizedSuffix(n) \o "@deleted.local"

\* ---------------------------------------------------------- cookies
RefreshPath == "/api/auth/refresh"
RootPath == "/"
LogoutPath == "/api/auth/logout"
NoCookie == [act |-> "none", path |-> "", domain |-> ""]

\* the segments of the paths the routes and the cookies use
Segments(path) ==
    CASE path = RootPath -> <<>>
      [] path = RefreshPath -> <<"api", "auth", "refresh">>
      [] path = LogoutPath -> <<"api", "auth", "logout">>

\* a cookie set with cookiePath goes with a request to requestPath when the
\* cookie's path is the request's path or a directory above it
PathMatch(cookiePath, requestPath) ==
    LET c == Segments(cookiePath)
        q == Segments(requestPath)
    IN Len(c) <= Len(q) /\ SubSeq(q, 1, Len(c)) = c

\* request.cookies.refreshToken of a request to requestPath from a client
\* that holds the refreshToken cookie with value secret and honours its path
BrowserSends(secret, requestPath) ==
    IF PathMatch(RefreshPath, requestPath) THEN Some(secret) ELSE None
\* reply.setCookie(name, value, {path, domain}); domain "cookieDomain" is the
\* configured site domain, "hostOnly" is a cookie sent without a domain option
SetCookie(path, domain) == [act |-> "set", path |-> path, domain |-> domain]
\* reply.clearCookie(name, options): @fastify/cookie defaults path to "/"
ClearCookie(path) == [act |-> "clear", path |-> path, domain |-> "hostOnly"]

VARIABLES
    users,          \* User table: sequence of rows, the index is the row id
    sessions,       \* RefreshSession table: set of rows
    nextSecret,     \* refresh secrets drawn so far
    nextToken,      \* verification tokens drawn so far
    now,            \* wall clock, in quarter hours
    nEvents,        \* requests accepted and clock advances so far
    req,            \* per request slot: handler position, locals, response
    jar,            \* refresh secrets clients hold (delivered in a cookie)
    accessTokens,   \* access tokens clients hold (delivered in a cookie)
    mail,           \* verification mails handed to the mailer: [to, token]
    hist            \* history of secrets: usedOk (a refresh answered 200 for it),
                    \* loggedOut (a logout completed for it), revoked (a logout
                    \* removed its row), issued (secret, owner, expiry as
                    \* delivered); of verification tokens: spent (consumed by a
                    \* verification or replaced by a resend); of accounts:
                    \* freed (email and username an anonymization replaced),
                    \* initialRole (what each registered account asked for),
                    \* proven (accounts verified with their verification token)

\* the state of the expert routes (GET and PUT /api/experts/:id, one id)
VARIABLES
    profile,        \* the ExpertProfile row: None, or Some of its headline/bio
    cache,          \* the Redis key expert:<id>: None, or Some of the JSON stored
    ereq,           \* per request slot of the expert routes: position, locals,
                    \* response
    nPuts           \* PUT bodies sent so far (each carries a new headline/bio)

authVars == <<users, sessions, nextSecret, nextToken, now, nEvents, req,
              jar, accessTokens, mail, hist>>
cacheVars == <<profile, cache, ereq, nPuts>>
vars == <<users, sessions, nextSecret, nextToken, now, nEvents, req,
          jar, accessTokens, mail, hist, profile, cache, ereq, nPuts>>

IdleEReq == [op |-> "none", pc |-> "idle", status |-> 0, held |-> None,
             result |-> None, afterPut |-> FALSE, atStart |-> None,
             disturbed |-> FALSE]

IdleReq ==
    [op |-> "none", pc |-> "idle", email |-> "", password |-> "",
     secret |-> None, sub |-> "", uid |-> None, row |-> None,
     newSecret |-> None, status |-> 0, msg |-> "",
     ckAccess |-> NoCookie, ckRefresh |-> NoCookie, atOut |-> None,
     tag |-> "", sawDeleted |-> FALSE, sawUnverified |-> FALSE,
     sawRow |-> FALSE, sawExpired |-> FALSE,
     replay |-> FALSE, afterLogout |-> FALSE,
     token |-> None, role |-> "", username |-> "", roles |-> None,
     mailed |-> FALSE, picture |-> "", sawAvatar |-> None, dto |-> None,
     resolvedDeleted |-> FALSE,
     body |-> [message |-> ""]]

NewReq(op) == [IdleReq EXCEPT !.op = op]

\* reply.status(status).send({message: msg})
Reply(r, status, msg) ==
    [r EXCEPT !.pc = "done", !.status = status, !.msg = msg,
              !.body = [message |-> msg]]
\* reply.status(status).send({message: msg, ...}): a body with more fields
ReplyWith(r, status, msg, body) == [Reply(r, status, msg) EXCEPT !.body = body]
\* an exception that escapes the handler: Fastify's default error handler
\* answers {statusCode, error, message}
InternalError(r) ==
    ReplyWith(r, 500, "Internal Server Error",
              [statusCode |-> 500, error |-> "Internal Server Error",
               message |-> "Internal Server Error"])

Free(p) == req[p].pc \in {"idle", "done"}
\* a request is accepted into the lowest free slot (slots are interchangeable)
Accept(p) ==
    /\ nEvents < MaxEvents
    /\ nEvents' = nEvents + 1
    /\ Free(p)
    /\ \A q \in Procs : q < p => ~Free(q)
\* slot p starts handling r; a response stays visible in its slot until
\* the next request is accepted
Begin(p, r) ==
    req' = [q \in Procs |-> IF q = p THEN r
                            ELSE IF req[q].pc = "done" THEN IdleReq ELSE req[q]]

\* ---------------------------------------------------------- User table
\* the ids of the rows in the table; a row the cleanup job removed keeps
\* its place in the sequence, marked removed, and no query returns it
UserIds == {i \in DOMAIN users : ~users[i].removed}
\* a User row joined with its persona rows (ExpertProfile,
\* OrganizationProfile, AdminProfile: at most one each per user)
NewUser(email, username, passwordHash, googleId, verifiedAt, token, tokenExp, initialRole) ==
    [email |-> email, username |-> username,
     passwordHash |-> passwordHash, googleId |-> googleId,
     emailVerifiedAt |-> verifiedAt, emailVerificationToken |-> token,
     emailVerificationExpiresAt |-> tokenExp, passwordResetToken |-> None,
     deletedAt |-> None, avatarUrl |-> None, lastLogin |-> None,
     createdAt |-> now, removed |-> FALSE,
     expertProfile |-> (initialRole = "EXPERT"),
     organizationProfile |-> (initialRole = "ORGANIZATION"),
     adminProfile |-> FALSE]

\* prisma.user.findUnique({where: {email}})
FindUserByEmail(email) ==
    LET m == {i \in UserIds : users[i].email = email}
    IN IF m = {} THEN None ELSE Some(CHOOSE i \in m : TRUE)
\* prisma.user.findUnique({where: {googleId}})
FindUserByGoogleId(sub) ==
    LET m == {i \in UserIds : users[i].googleId = Some(sub)}
    IN IF m = {} THEN None ELSE Some(CHOOSE i \in m : TRUE)
\* prisma.user.findUnique({where: {emailVerificationToken: token}})
FindUserByToken(token) ==
    LET m == {i \in UserIds : users[i].emailVerificationToken = Some(token)}
    IN IF m = {} THEN None ELSE Some(CHOOSE i \in m : TRUE)

\* prisma.user.findUnique({where: {username}})
FindUserByUsername(username) ==
    LET m == {i \in UserIds : users[i].username = username}
    IN IF m = {} THEN None ELSE Some(CHOOSE i \in m : TRUE)

\* generateUniqueUsername(): draws[k] is what uniqueNamesGenerator returns on
\* attempt k; the first draw no row holds is returned, and after MaxAttempts
\* collisions the fallback `user_${Date.now()}`, ms being the millisecond
\* clock (it advances with every request accepted)
RECURSIVE UsernameFrom(_, _, _)
UsernameFrom(draws, attempts, ms) ==
    IF attempts >= MaxAttempts THEN "user_" \o ToString(ms)
    ELSE IF FindUserByUsername(draws[attempts + 1]) = None
         THEN draws[attempts + 1]
    ELSE UsernameFrom(draws, attempts + 1, ms)
generateUniqueUsername(draws, ms) == UsernameFrom(draws, 0, ms)
\* what one call can return, over all its draws
GeneratedUsernames(ms) ==
    {generateUniqueUsername(d, ms) : d \in [1..MaxAttempts -> Dictionary]}

\* the roles object built from the included persona rows
Roles_AllFalse(u) == [isExpert |-> FALSE, isOrg |-> FALSE, isAdmin |-> FALSE]
Roles(u) ==
    [isExpert |-> u.expertProfile, isOrg |-> u.organizationProfile,
     isAdmin |-> u.adminProfile]

\* the user descriptor of the 200 of login and Google sign-in (name and
\* preferences, which no handler here changes, are left out)
UserDto(id, u) ==
    [id |-> id, email |-> u.email, username |-> u.username,
     avatarUrl |-> u.avatarUrl,
     roles |-> [isExpert |-> u.expertProfile,
                isOrganization |-> u.organizationProfile,
                isAdmin |-> u.adminProfile]]
\* reply.status(200).send({message, user}); accessToken and refreshToken
\* are the values the handler has just put in the cookies
SessionBody_WithTokens(msg, dto, accessToken, refreshToken) ==
    [message |-> msg, user |-> dto,
     accessToken |-> accessToken, refreshToken |-> refreshToken]
SessionBody(msg, dto, accessToken, refreshToken) ==
    [message |-> msg, user |-> dto]

\* user.deletedAt
Disabled_Never(u) == FALSE
Disabled(u) == u.deletedAt # None

\* ------------------------------------------------ RefreshSession table
\* variant: the row gets the access token's lifetime
NewSession_ShortLived(uid, secret) ==
    [userId |-> uid, tokenHash |-> Sha256(secret), expiresAt |-> now + AccessTtl]
\* data of refreshSession.create: expiresAt is Date.now() + 7 days
NewSession(uid, secret) ==
    [userId |-> uid, tokenHash |-> Sha256(secret), expiresAt |-> now + SessionTtl]
\* variant: the lookup ignores the presented hash and returns any row
FindSessionByHash_AnyRow(hash) ==
    IF sessions = {} THEN None ELSE Some(CHOOSE s \in sessions : TRUE)
\* prisma.refreshSession.findUnique({where: {tokenHash}})
FindSessionByHash(hash) ==
    LET m == {s \in sessions : s.tokenHash = hash}
    IN IF m = {} THEN None ELSE Some(CHOOSE s \in m : TRUE)
\* unique index RefreshSession_tokenHash_key
HashTaken(hash) == \E s \in sessions : s.tokenHash = hash

\* fastify.jwt.sign({id, roles}, {expiresIn: '15m'})
JwtSign(uid, roles) == [id |-> uid, roles |-> roles, exp |-> now + AccessTtl]
\* request.jwtVerify()
JwtVerify(at) == now < at.exp

Init ==
    /\ users = <<>>
    /\ sessions = {}
    /\ nextSecret = 0
    /\ nextToken = 0
    /\ now = 0
    /\ nEvents = 0
    /\ req = [p \in Procs |-> IdleReq]
    /\ jar = {}
    /\ accessTokens = {}
    /\ mail = {}
    /\ hist = [usedOk |-> {}, loggedOut |-> {}, revoked |-> {},
               issued |-> {}, spent |-> {}, freed |-> {}, initialRole |-> {},
               proven |-> {}]
    /\ profile = None
    /\ cache = None
    /\ ereq = [p \in Procs |-> IdleEReq]
    /\ nPuts = 0

\* ================================================================ register
\* validateEmailStrict, findUnique by email, bcrypt.hash and
\* generateUniqueUsername (part_008 lines 49-75)
RegisterStart(p, email, password, initialRole, username) ==
    /\ Accept(p)
    /\ LET f == FindUserByEmail(email)
           r == [NewReq("register") EXCEPT !.email = email, !.password = password,
                                           !.role = initialRole]
       IN Begin(p,
            IF ~validateEmailStrict(email).isValid
            THEN ReplyWith(r, 400, validateEmailStrict(email).reason,
                           [message |-> validateEmailStrict(email).reason,
                            error |-> "Email Validation Failed"])
            ELSE IF f # None
                 THEN Reply([r EXCEPT !.uid = f, !.sawRow = TRUE,
                                      !.sawDeleted = (users[Val(f)].deletedAt # None)],
                            409, "Email already exists")
            ELSE [r EXCEPT !.pc = "reg_create", !.username = username])
    /\ UNCHANGED <<users, sessions, nextSecret, nextToken, now,
                   jar, accessTokens, mail, hist>>
    /\ UNCHANGED cacheVars

\* crypto.randomBytes(32).toString('hex'): a value never drawn before
FreshToken_Reused == IF nextToken = 0 THEN 1 ELSE nextToken
FreshToken == nextToken + 1

\* the User table after a $transaction whose persona create threw, u being
\* the row tx.user.create had inserted: the transaction rolls back
RolledBack_UserKept(u) == Append(users, [u EXCEPT !.expertProfile = FALSE,
                                                  !.organizationProfile = FALSE])
RolledBack(u) == users

\* try { await sendVerificationEmail(...) } catch (error) { request.log.error(error) }:
\* the handler goes on to its reply whether or not transporter.sendMail
\* delivered the message it was handed
AfterMail_Surfaced(r, delivered, status, msg) ==
    IF delivered THEN Reply([r EXCEPT !.mailed = TRUE], status, msg)
    ELSE InternalError([r EXCEPT !.tag = "mail-failed"])
AfterMail(r, delivered, status, msg) ==
    Reply([r EXCEPT !.mailed = delivered,
                    !.tag = IF delivered THEN @ ELSE "mail-failed"],
          status, msg)

\* the $transaction creating the User row and the requested persona row,
\* then sendVerificationEmail and the 201 (part_008 lines 75-122);
\* personaOk: the persona create succeeds, delivered: the mailer succeeds
RegisterCreate(p, personaOk, delivered) ==
    /\ req[p].op = "register" /\ req[p].pc = "reg_create"
    /\ LET r == req[p]
           u == NewUser(r.email, r.username, Some(BcryptHash(r.password)),
                        None, None,
                        Some(FreshToken), Some(now + VerifyTtl), r.role)
       IN IF FindUserByEmail(r.email) # None \/ FindUserByUsername(r.username) # None
          THEN \* unique index User_email_key / User_username_key: the
               \* create throws, no mail is sent
               /\ req' = [req EXCEPT ![p] = InternalError(r)]
               /\ UNCHANGED <<users, nextToken, mail, hist>>
          ELSE IF r.role \in {"EXPERT", "ORGANIZATION"} /\ ~personaOk
          THEN /\ Len(users) < MaxUsers
               /\ users' = RolledBack(u)
               /\ req' = [req EXCEPT ![p] =
                      InternalError([r EXCEPT !.tag = "persona-failed"])]
               /\ UNCHANGED <<nextToken, mail, hist>>
          ELSE /\ Len(users) < MaxUsers /\ nextToken < MaxTokens
               /\ nextToken' = nextToken + 1
               /\ users' = Append(users, u)
               /\ mail' = mail \cup {[to |-> r.email, token |-> FreshToken]}
               /\ hist' = [hist EXCEPT !.initialRole = @ \cup
                             {[id |-> Len(users) + 1, initialRole |-> r.role]}]
               /\ req' = [req EXCEPT ![p] =
                      AfterMail([r EXCEPT !.uid = Some(Len(users) + 1),
                                          !.token = Some(FreshToken)],
                                delivered, 201,
                                "Account created. Please check your email to verify.")]
    /\ UNCHANGED <<sessions, nextSecret, now, nEvents,
                   jar, accessTokens>>
    /\ UNCHANGED cacheVars

\* ============================================================ verify-email
\* user.emailVerificationExpiresAt && user.emailVerificationExpiresAt < new Date()
TokenExpired_Never(u) == FALSE
TokenExpired(u) ==
    /\ u.emailVerificationExpiresAt # None
    /\ Val(u.emailVerificationExpiresAt) < now

\* findUnique by token and the expiry check (part_008 lines 372-389); the
\* expiry answer carries code: 'TOKEN_EXPIRED'
VerifyStart(p, token) ==
    /\ Accept(p)
    /\ LET r == [NewReq("verify") EXCEPT !.token = Some(token),
                                         !.replay = (token \in hist.spent)]
           f == FindUserByToken(token)
       IN Begin(p,
            IF f = None THEN Reply(r, 400, "Invalid or expired token")
            ELSE IF TokenExpired(users[Val(f)])
                 THEN ReplyWith([r EXCEPT !.uid = f, !.sawExpired = TRUE],
                                400, "TOKEN_EXPIRED",
                                [message |-> "Token expired. Please request a new one.",
                                 code |-> "TOKEN_EXPIRED"])
            ELSE [r EXCEPT !.pc = "verify_update", !.uid = f])
    /\ UNCHANGED <<users, sessions, nextSecret, nextToken, now,
                   jar, accessTokens, mail, hist>>
    /\ UNCHANGED cacheVars

\* the data of the verifying update (part_008 lines 391-398)
Verified_KeepToken(u) == [u EXCEPT !.emailVerifiedAt = Some(now)]
Verified(u) ==
    [u EXCEPT !.emailVerifiedAt = Some(now),
              !.emailVerificationToken = None,
              !.emailVerificationExpiresAt = None]

\* prisma.user.update setting emailVerifiedAt and clearing the token
VerifyUpdate(p) ==
    /\ req[p].op = "verify" /\ req[p].pc = "verify_update"
    /\ LET r == req[p]
           id == Val(r.uid)
       IN IF id \notin UserIds
          THEN \* record to update not found: the update throws
               /\ req' = [req EXCEPT ![p] = InternalError(r)]
               /\ UNCHANGED <<users, hist>>
          ELSE /\ users' = [users EXCEPT ![id] = Verified(users[id])]
               /\ req' = [req EXCEPT ![p] =
                     Reply(r, 200, "Email verified successfully. You may now login.")]
               /\ hist' = [hist EXCEPT !.spent = @ \cup {Val(r.token)},
                                        !.proven = @ \cup {id}]
    /\ UNCHANGED <<sessions, nextSecret, nextToken, now, nEvents,
                   jar, accessTokens, mail>>
    /\ UNCHANGED cacheVars

\* ===================================================== resend-verification
ResendMsg == "If an unverified account exists with this email, a new link has been sent."

\* user && !user.emailVerifiedAt
NeedsVerification_AnyAccount(f) == f # None
NeedsVerification(f) == f # None /\ users[Val(f)].emailVerifiedAt = None

\* findUnique by email (part_008 lines 520-527)
ResendStart(p, email) ==
    /\ Accept(p)
    /\ LET f == FindUserByEmail(email)
           r == [NewReq("resend") EXCEPT !.email = email,
                    !.tag = IF f = None THEN "nonexistent"
                            ELSE IF users[Val(f)].emailVerifiedAt # None
                                 THEN "verified"
                            ELSE "unverified"]
       IN Begin(p,
            IF NeedsVerification(f)
            THEN [r EXCEPT !.pc = "resend_update", !.uid = f]
            ELSE Reply(r, 200, ResendMsg))
    /\ UNCHANGED <<users, sessions, nextSecret, nextToken, now,
                   jar, accessTokens, mail, hist>>
    /\ UNCHANGED cacheVars

\* prisma.user.update storing a fresh token and expiry, then
\* sendVerificationEmail(user.email, newToken) with the address read at the
\* lookup, and the 200 (part_008 lines 529-553)
ResendUpdate(p, delivered) ==
    /\ req[p].op = "resend" /\ req[p].pc = "resend_update"
    /\ LET r == req[p]
           id == Val(r.uid)
           old == users[id].emailVerificationToken
       IN IF id \notin UserIds
          THEN \* record to update not found: the update throws
               /\ req' = [req EXCEPT ![p] = InternalError(r)]
               /\ UNCHANGED <<users, mail, hist, nextToken>>
          ELSE /\ nextToken < MaxTokens
               /\ users' = [users EXCEPT
                     ![id].emailVerificationToken = Some(FreshToken),
                     ![id].emailVerificationExpiresAt = Some(now + VerifyTtl)]
               /\ mail' = mail \cup {[to |-> r.email, token |-> FreshToken]}
               /\ hist' = IF old = None THEN hist
                          ELSE [hist EXCEPT !.spent = @ \cup {Val(old)}]
               /\ req' = [req EXCEPT ![p] =
                     AfterMail([r EXCEPT !.token = Some(FreshToken)],
                               delivered, 200, ResendMsg)]
               /\ nextToken' = nextToken + 1
    /\ UNCHANGED <<sessions, nextSecret, now, nEvents,
                   jar, accessTokens>>
    /\ UNCHANGED cacheVars

\* =================================================================== login
\* variant: the emailVerifiedAt check is missing
LoginCheck_NoVerifiedCheck(found, password) ==
    IF found = None THEN "invalid"
    ELSE IF Val(found).passwordHash = None THEN "invalid"
    ELSE IF Val(found).deletedAt # None THEN "disabled"
    ELSE IF ~BcryptCompare(password, Val(Val(found).passwordHash)) THEN "invalid"
    ELSE "ok"

\* the checks between the lookup and the token issuance, in source order
LoginCheck(found, password) ==
    IF found = None THEN "invalid"
    ELSE IF Val(found).passwordHash = None THEN "invalid"
    ELSE IF Val(found).deletedAt # None THEN "disabled"
    ELSE IF Val(found).emailVerifiedAt = None THEN "unverified"
    ELSE IF ~BcryptCompare(password, Val(Val(found).passwordHash)) THEN "invalid"
    ELSE "ok"

\* which of the credential cases of a login request holds (history only)
LoginCase(found, password) ==
    IF found = None THEN "unknown-email"
    ELSE IF Val(found).passwordHash = None THEN "no-hash"
    ELSE IF BcryptCompare(password, Val(Val(found).passwordHash))
         THEN "correct-password"
    ELSE "wrong-password"

\* findUnique by email, the checks and bcrypt.compare (part_008 lines 126-161)
LoginStart(p, email, password) ==
    /\ Accept(p)
    /\ LET f == FindUserByEmail(email)
           found == IF f = None THEN None ELSE Some(users[Val(f)])
           r == [NewReq("login") EXCEPT
                    !.email = email, !.password = password, !.uid = f,
                    !.roles = IF f = None THEN None ELSE Some(Roles(users[Val(f)])),
                    !.dto = IF f = None THEN None
                            ELSE Some(UserDto(Val(f), users[Val(f)])),
                    !.tag = LoginCase(found, password),
                    !.sawDeleted = (found # None /\ Val(found).deletedAt # None),
                    !.sawUnverified = (found # None /\ Val(found).emailVerifiedAt = None)]
           c == LoginCheck(found, password)
       IN Begin(p,
            CASE c = "invalid"    -> Reply(r, 401, "Invalid credentials")
              [] c = "disabled"   -> Reply(r, 403, "Account is disabled or deleted.")
              [] c = "unverified" ->
                   ReplyWith(r, 403, "Email not verified. Please check your inbox.",
                             [message |-> "Email not verified. Please check your inbox.",
                              isUnverified |-> TRUE])
              [] OTHER            -> [r EXCEPT !.pc = "login_session"])
    /\ UNCHANGED <<users, sessions, nextSecret, nextToken, now,
                   jar, accessTokens, mail, hist>>
    /\ UNCHANGED cacheVars

\* jwt.sign with the roles of the row read before, randomBytes,
\* refreshSession.create, both cookies, the 200 with the user DTO
\* (shared by login and Google sign-in, which issue tokens the same way)
IssueSession(p, okMsg) ==
    /\ nextSecret < MaxSecrets
    /\ LET r == req[p]
           id == Val(r.uid)
           secret == nextSecret + 1
           at == JwtSign(id, Val(r.roles))
       IN /\ sessions' = sessions \cup {NewSession(id, secret)}
          /\ nextSecret' = secret
          /\ jar' = jar \cup {secret}
          /\ accessTokens' = accessTokens \cup {at}
          /\ hist' = [hist EXCEPT !.issued = @ \cup
                        {[secret |-> secret, userId |-> id,
                          expiresAt |-> now + SessionTtl]}]
          /\ req' = [req EXCEPT ![p] =
                ReplyWith([r EXCEPT !.newSecret = Some(secret), !.atOut = Some(at),
                                    !.sawDeleted = (users[id].deletedAt # None),
                                    !.ckAccess = SetCookie(RootPath, "cookieDomain"),
                                    !.ckRefresh = SetCookie(RefreshPath, "cookieDomain")],
                          200, okMsg, SessionBody(okMsg, Val(r.dto), at, secret))]
    /\ UNCHANGED <<users, nextToken, now, nEvents, mail>>
    /\ UNCHANGED cacheVars

LoginSession(p) ==
    /\ req[p].op = "login" /\ req[p].pc = "login_session"
    /\ IssueSession(p, "Login successful")

\* ========================================================== Google sign-in
\* verifyIdToken, the payload check and findUnique by googleId
\* (part_008 lines 238-265); kind is what the assertion verifies to
GoogleStart(p, kind, sub, email, picture) ==
    /\ Accept(p)
    /\ LET r == [NewReq("google") EXCEPT !.email = email, !.sub = sub]
           f == FindUserByGoogleId(sub)
       IN Begin(p,
            CASE kind = "invalid" -> Reply(r, 401, "Invalid Google Token")
              [] kind = "noemail" -> Reply(r, 400, "Incomplete Google Profile")
              [] OTHER ->
                   IF f = None
                   THEN \* picture is used by the link and the create only
                        [r EXCEPT !.pc = "g_find_email", !.picture = picture]
                   ELSE IF Disabled(users[Val(f)])
                        THEN Reply([r EXCEPT !.uid = f, !.sawDeleted = TRUE,
                                             !.tag = "by-googleId",
                                             !.resolvedDeleted = TRUE],
                                   403, "Account is disabled.")
                   ELSE [r EXCEPT !.pc = "g_session", !.uid = f,
                                  !.tag = "by-googleId",
                                  !.resolvedDeleted = (users[Val(f)].deletedAt # None),
                                  !.roles = Some(Roles(users[Val(f)])),
                                  !.dto = Some(UserDto(Val(f), users[Val(f)]))])
    /\ UNCHANGED <<users, sessions, nextSecret, nextToken, now,
                   jar, accessTokens, mail, hist>>
    /\ UNCHANGED cacheVars

\* findUnique by email and, when no row holds it, generateUniqueUsername
\* (part_008 lines 267-270, 285)
GoogleFindEmail(p, username) ==
    /\ req[p].op = "google" /\ req[p].pc = "g_find_email"
    /\ LET r == req[p]
           f == FindUserByEmail(r.email)
       IN req' = [req EXCEPT ![p] =
            IF f # None THEN [r EXCEPT !.pc = "g_link", !.uid = f,
                                       !.sawAvatar = users[Val(f)].avatarUrl]
            ELSE [r EXCEPT !.pc = "g_create", !.username = username]]
    /\ UNCHANGED <<users, sessions, nextSecret, nextToken, now, nEvents,
                   jar, accessTokens, mail, hist>>
    /\ UNCHANGED cacheVars

\* the data of the linking update: existingEmailUser.avatarUrl || picture
\* uses the row as the lookup by email returned it
Linked_AvatarReplaced(u, sub, sawAvatar, picture) ==
    [u EXCEPT !.googleId = Some(sub),
              !.avatarUrl = Some(picture),
              !.emailVerifiedAt = Some(now)]
Linked(u, sub, sawAvatar, picture) ==
    [u EXCEPT !.googleId = Some(sub),
              !.avatarUrl = IF sawAvatar # None THEN sawAvatar ELSE Some(picture),
              !.emailVerifiedAt = Some(now)]

\* user.update linking the subject id, then the deletedAt check on the
\* returned row (part_008 lines 272-282, 302-304)
GoogleLink(p) ==
    /\ req[p].op = "google" /\ req[p].pc = "g_link"
    /\ LET r == req[p]
           id == Val(r.uid)
           holder == FindUserByGoogleId(r.sub)
       IN IF id \notin UserIds \/ (holder # None /\ holder # Some(id))
          THEN \* record to update not found, or unique index
               \* User_googleId_key: the update throws
               /\ req' = [req EXCEPT ![p] = InternalError(r)]
               /\ UNCHANGED users
          ELSE /\ users' = [users EXCEPT
                               ![id] = Linked(users[id], r.sub, r.sawAvatar, r.picture)]
               /\ req' = [req EXCEPT ![p] =
                    IF Disabled(users[id])
                    THEN Reply([r EXCEPT !.sawDeleted = TRUE, !.tag = "by-email",
                                         !.resolvedDeleted = TRUE],
                               403, "Account is disabled.")
                    ELSE [r EXCEPT !.pc = "g_session", !.tag = "by-email",
                                   !.resolvedDeleted = (users[id].deletedAt # None),
                                   !.roles = Some(Roles(users[id])),
                                   !.dto = Some(UserDto(id,
                                      Linked(users[id], r.sub, r.sawAvatar, r.picture)))]]
    /\ UNCHANGED <<sessions, nextSecret, nextToken, now, nEvents,
                   jar, accessTokens, mail, hist>>
    /\ UNCHANGED cacheVars

\* user.create of a pre-verified account (part_008 lines 284-297)
GoogleCreate(p) ==
    /\ req[p].op = "google" /\ req[p].pc = "g_create"
    /\ LET r == req[p]
           u == [NewUser(r.email, r.username, None, Some(r.sub), Some(now),
                         None, None, "USER")
                    EXCEPT !.avatarUrl = Some(r.picture)]
       IN IF \/ FindUserByEmail(r.email) # None
             \/ FindUserByGoogleId(r.sub) # None
             \/ FindUserByUsername(r.username) # None
          THEN \* unique index User_email_key / User_googleId_key /
               \* User_username_key
               /\ req' = [req EXCEPT ![p] = InternalError(r)]
               /\ UNCHANGED users
          ELSE /\ Len(users) < MaxUsers
               /\ users' = Append(users, u)
               /\ req' = [req EXCEPT ![p] =
                      [r EXCEPT !.pc = "g_session", !.uid = Some(Len(users) + 1),
                                !.tag = "created",
                                !.roles = Some(Roles(u)),
                                !.dto = Some(UserDto(Len(users) + 1, u))]]
    /\ UNCHANGED <<sessions, nextSecret, nextToken, now, nEvents,
                   jar, accessTokens, mail, hist>>
    /\ UNCHANGED cacheVars

\* token issuance (part_008 lines 306-369)
GoogleSession(p) ==
    /\ req[p].op = "google" /\ req[p].pc = "g_session"
    /\ IssueSession(p, "Google Login Successful")

\* ================================================================= refresh
\* reply.clearCookie('accessToken'); reply.clearCookie('refreshToken', {path})
ClearedOnRefresh(r) ==
    [r EXCEPT !.ckAccess = ClearCookie(RootPath), !.ckRefresh = ClearCookie(RefreshPath)]

\* session.expiresAt < new Date()
Expired(row) == row.expiresAt < now

\* the roles of the access token a refresh signs: those of the persona rows
\* included with the session's user at the lookup
RefreshRoles_Default(row) == [isExpert |-> FALSE, isOrg |-> FALSE, isAdmin |-> FALSE]
RefreshRoles(row) == Roles(users[row.userId])

\* the cookie read and findUnique by hash (part_008 lines 406-419)
RefreshStart(p, cookie) ==
    /\ Accept(p)
    /\ LET r == [NewReq("refresh") EXCEPT !.secret = cookie]
       IN Begin(p,
            IF cookie = None THEN Reply(r, 401, "No refresh token")
            ELSE LET f == FindSessionByHash(Sha256(Val(cookie)))
                     g == [r EXCEPT !.replay = (Val(cookie) \in hist.usedOk),
                                    !.afterLogout = (Val(cookie) \in hist.loggedOut)]
                 IN IF f = None
                    THEN Reply(ClearedOnRefresh(g), 401, "Session expired")
                    ELSE IF Expired(Val(f))
                    THEN [g EXCEPT !.pc = "rf_delete_expired", !.row = f,
                                   !.uid = Some(Val(f).userId),
                                   !.sawRow = TRUE, !.sawExpired = TRUE]
                    ELSE [g EXCEPT !.pc = "rf_delete", !.row = f,
                                   !.uid = Some(Val(f).userId), !.sawRow = TRUE,
                                   !.roles = Some(RefreshRoles(Val(f)))])
    /\ UNCHANGED <<users, sessions, nextSecret, nextToken, now,
                   jar, accessTokens, mail, hist>>
    /\ UNCHANGED cacheVars

\* variant: the delete removes every session of the row's account
DeleteSessionById_AllOfUser(row) == {s \in sessions : s.userId # row.userId}
\* refreshSession.delete({where: {id: session.id}})
DeleteSessionById(row) == sessions \ {row}

\* refreshSession.delete({where: {id}}) of the expired row, the cleared
\* cookies and the 401 (part_008 lines 421-425)
RefreshDeleteExpired(p) ==
    /\ req[p].op = "refresh" /\ req[p].pc = "rf_delete_expired"
    /\ LET r == req[p]
       IN IF Val(r.row) \in sessions
          THEN /\ sessions' = DeleteSessionById(Val(r.row))
               /\ req' = [req EXCEPT ![p] =
                      Reply(ClearedOnRefresh(r), 401, "Session expired")]
          ELSE \* record to delete does not exist: delete throws
               /\ req' = [req EXCEPT ![p] = InternalError(r)]
               /\ UNCHANGED sessions
    /\ UNCHANGED <<users, nextSecret, nextToken, now, nEvents,
                   jar, accessTokens, mail, hist>>
    /\ UNCHANGED cacheVars

\* refreshSession.delete({where: {id}}) of the presented row, then the
\* new secret is drawn (part_008 lines 432-437)
RefreshDelete(p) ==
    /\ req[p].op = "refresh" /\ req[p].pc = "rf_delete"
    /\ LET r == req[p]
       IN IF Val(r.row) \in sessions
          THEN /\ nextSecret < MaxSecrets
               /\ sessions' = DeleteSessionById(Val(r.row))
               /\ nextSecret' = nextSecret + 1
               /\ req' = [req EXCEPT ![p] =
                      [r EXCEPT !.pc = "rf_create1", !.newSecret = Some(nextSecret + 1)]]
          ELSE /\ req' = [req EXCEPT ![p] = InternalError(r)]
               /\ UNCHANGED <<sessions, nextSecret>>
    /\ UNCHANGED <<users, nextToken, now, nEvents,
                   jar, accessTokens, mail, hist>>
    /\ UNCHANGED cacheVars

\* the first refreshSession.create (part_008 lines 440-448)
RefreshCreate1(p) ==
    /\ req[p].op = "refresh" /\ req[p].pc = "rf_create1"
    /\ LET r == req[p]
           row == NewSession(Val(r.uid), Val(r.newSecret))
       IN IF HashTaken(row.tokenHash)
          THEN /\ req' = [req EXCEPT ![p] = InternalError(r)]
               /\ UNCHANGED sessions
          ELSE /\ sessions' = sessions \cup {row}
               /\ req' = [req EXCEPT ![p] = [r EXCEPT !.pc = "rf_create2"]]
    /\ UNCHANGED <<users, nextSecret, nextToken, now, nEvents,
                   jar, accessTokens, mail, hist>>
    /\ UNCHANGED cacheVars

\* jwt.sign, the second refreshSession.create with the same tokenHash,
\* both cookies and the 200 (part_008 lines 452-491)
RefreshCreate2(p) ==
    /\ req[p].op = "refresh" /\ req[p].pc = "rf_create2"
    /\ LET r == req[p]
           row == NewSession(Val(r.uid), Val(r.newSecret))
           at == JwtSign(Val(r.uid), Val(r.roles))
       IN IF HashTaken(row.tokenHash)
          THEN \* unique index RefreshSession_tokenHash_key: the create throws
               /\ req' = [req EXCEPT ![p] = InternalError(r)]
               /\ UNCHANGED <<sessions, jar, accessTokens, hist>>
          ELSE /\ sessions' = sessions \cup {row}
               /\ jar' = jar \cup {Val(r.newSecret)}
               /\ accessTokens' = accessTokens \cup {at}
               /\ hist' = [hist EXCEPT !.usedOk = @ \cup {Val(r.secret)},
                                        !.issued = @ \cup
                                           {[secret |-> Val(r.newSecret),
                                             userId |-> Val(r.uid),
                                             expiresAt |-> now + SessionTtl]}]
               /\ req' = [req EXCEPT ![p] =
                      Reply([r EXCEPT !.atOut = Some(at),
                                      !.sawDeleted = (users[Val(r.uid)].deletedAt # None),
                                      !.ckRefresh = SetCookie(RefreshPath, "hostOnly"),
                                      !.ckAccess = SetCookie(RootPath, "hostOnly")],
                            200, "Token refreshed")]
    /\ UNCHANGED <<users, nextSecret, nextToken, now, nEvents, mail>>
    /\ UNCHANGED cacheVars

\* ================================================================== logout
\* variant: the deleteMany matches no row
DeleteSessionsByHash_Nothing(hash) == sessions
\* refreshSession.deleteMany({where: {tokenHash}})
DeleteSessionsByHash(hash) == {s \in sessions : s.tokenHash # hash}

\* the whole handler (part_008 lines 495-510)
Logout(p, cookie) ==
    /\ Accept(p)
    /\ sessions' = IF cookie = None THEN sessions
                   ELSE DeleteSessionsByHash(Sha256(Val(cookie)))
    /\ hist' = IF cookie = None THEN hist
               ELSE [hist EXCEPT !.loggedOut = @ \cup {Val(cookie)},
                                 !.revoked = IF HashTaken(Sha256(Val(cookie)))
                                             THEN @ \cup {Val(cookie)} ELSE @]
    /\ Begin(p,
          Reply([NewReq("logout") EXCEPT !.secret = cookie,
                     !.ckAccess = ClearCookie(RootPath),
                     !.ckRefresh = ClearCookie(RefreshPath)],
                200, "Lxogged out successfully"))
    /\ UNCHANGED <<users, nextSecret, nextToken, now,
                   jar, accessTokens, mail>>
    /\ UNCHANGED cacheVars

\* ============================================================== deleteSelf
\* the anonymizing update of the transaction (part_008 lines 580-603);
\* n stands for the random bytes of anonymizedSuffix
Anonymize_KeepEmail(u, n) ==
    [u EXCEPT !.username = AnonymizedSuffix(n),
              !.googleId = None,
              !.avatarUrl = None,
              !.passwordHash = None,
              !.emailVerificationToken = None,
              !.passwordResetToken = None,
              !.deletedAt = Some(now)]
Anonymize(u, n) ==
    [u EXCEPT !.email = AnonymizedEmail(n),
              !.username = AnonymizedSuffix(n),
              !.googleId = None,
              !.avatarUrl = None,
              !.passwordHash = None,
              !.emailVerificationToken = None,
              !.passwordResetToken = None,
              !.deletedAt = Some(now)]

\* refreshSessions: { deleteMany: {} }
DeleteSessionsOfUser(id) == {s \in sessions : s.userId # id}

\* !existing || existing.deletedAt
AlreadyDeleted_Never(id) == id \notin UserIds
AlreadyDeleted(id) == id \notin UserIds \/ users[id].deletedAt # None

\* the whole handler: authenticate, the transaction, clearCookie, the 200
\* (part_008 lines 557-615)
DeleteSelf(p, token) ==
    /\ Accept(p)
    /\ LET r == NewReq("deleteSelf")
       IN IF token = None \/ ~JwtVerify(Val(token))
          THEN /\ Begin(p,
                     Reply(r, 401, "Unauthorized: Invalid or missing token"))
               /\ UNCHANGED <<users, sessions, hist>>
          ELSE LET id == Val(token).id
               IN /\ IF AlreadyDeleted(id)
                     THEN UNCHANGED <<users, sessions, hist>>
                     ELSE /\ users' = [users EXCEPT
                                          ![id] = Anonymize(users[id], nEvents + 1)]
                          /\ sessions' = DeleteSessionsOfUser(id)
                          /\ hist' = [hist EXCEPT !.freed = @ \cup
                                        {[email |-> users[id].email,
                                          username |-> users[id].username]}]
                  /\ Begin(p,
                        Reply([r EXCEPT !.uid = Some(id),
                                   !.sawDeleted = (id \in UserIds
                                                   /\ users[id].deletedAt # None),
                                   !.ckAccess = ClearCookie(RootPath),
                                   !.ckRefresh = ClearCookie(RootPath)],
                              200, "Account deleted successfully. Your data has been anonymized."))
    /\ UNCHANGED <<nextSecret, nextToken, now,
                   jar, accessTokens, mail>>
    /\ UNCHANGED cacheVars

\* ============================================================== onboarding
\* a persona row created after registration ("or later via onboarding"): an
\* ExpertProfile row for an account that has none, written between requests
Onboard(id) ==
    /\ nEvents < MaxEvents
    /\ \A p \in Procs : Free(p)
    /\ id \in UserIds /\ ~users[id].expertProfile
    /\ nEvents' = nEvents + 1
    /\ users' = [users EXCEPT ![id].expertProfile = TRUE]
    /\ req' = [p \in Procs |-> IdleReq]
    /\ UNCHANGED <<sessions, nextSecret, nextToken, now,
                   jar, accessTokens, mail, hist>>
    /\ UNCHANGED cacheVars

\* ================================================================= cleanup
\* variant: the where clause has no emailVerifiedAt: null
Stale_IgnoreVerified(u) == u.createdAt + CleanupAge < now
\* where: {emailVerifiedAt: null, createdAt: {lt: twentyFourHoursAgo}}
Stale(u) == u.emailVerifiedAt = None /\ u.createdAt + CleanupAge < now

\* one run of the hourly cleanup-unverified-users task that finds something
\* to remove (server.ts lines 50-70): prisma.user.deleteMany, the persona
\* and session rows of a removed user going with it (ON DELETE CASCADE).
\* It runs between any two steps of the handlers, and a run counts as an
\* event of the behaviour; the responses already given have been consumed
Cleanup ==
    LET gone == {i \in UserIds : Stale(users[i])}
    IN /\ gone # {}
       /\ nEvents < MaxEvents
       /\ nEvents' = nEvents + 1
       /\ users' = [i \in DOMAIN users |->
                       IF i \in gone THEN [users[i] EXCEPT !.removed = TRUE]
                       ELSE users[i]]
       /\ sessions' = {s \in sessions : s.userId \notin gone}
       /\ req' = [p \in Procs |->
                     IF req[p].pc = "done" THEN IdleReq ELSE req[p]]
       /\ UNCHANGED <<nextSecret, nextToken, now,
                      jar, accessTokens, mail, hist>>
       /\ UNCHANGED cacheVars

\* =================================================================== clock
\* time passes between requests; access-token cookies that reached their
\* max-age are dropped by the client, and the responses have been consumed.
\* The handlers read the clock only to set and to compare deadlines, so
\* time passing while nothing has a deadline is the same behaviour started
\* later: the clock advances only once a token or a session exists
Tick(d) ==
    /\ nEvents < MaxEvents
    /\ \A p \in Procs : Free(p)
    /\ \/ accessTokens # {}
       \/ sessions # {}
       \/ \E i \in UserIds : users[i].emailVerificationExpiresAt # None
    /\ now' = now + d
    /\ nEvents' = nEvents + 1
    /\ accessTokens' = {at \in accessTokens : now + d < at.exp}
    /\ req' = [p \in Procs |-> IdleReq]
    /\ UNCHANGED <<users, sessions, nextSecret, nextToken,
                   jar, mail, hist>>
    /\ UNCHANGED cacheVars

\* addresses a login request may name: a real one or one a row now holds
LoginEmails == Emails \cup {users[i].email : i \in UserIds}
\* the picture of an assertion: pictures are interchangeable, so while no row
\* holds one and no request is in flight the first is called "pic-1"
AssertedPictures ==
    IF (\A i \in UserIds : users[i].avatarUrl = None) /\ (\A p \in Procs : Free(p))
    THEN {"pic-1"} ELSE Pictures
Cookies == {None} \cup {Some(s) : s \in jar \cup {BadSecret}}
Bearers == {None} \cup {Some(at) : at \in accessTokens}
VerifyTokens == 0..nextToken

Next ==
    \/ \E p \in Procs, b \in RegisterBodies, pw \in RegPasswords,
          u \in GeneratedUsernames(nEvents + 1) :
            RegisterStart(p, b.email, pw, b.initialRole, u)
    \/ \E p \in Procs, personaOk \in BOOLEAN, delivered \in BOOLEAN :
            RegisterCreate(p, personaOk, delivered)
    \/ \E p \in Procs, t \in VerifyTokens : VerifyStart(p, t)
    \/ \E p \in Procs : VerifyUpdate(p)
    \/ \E p \in Procs, e \in Emails : ResendStart(p, e)
    \/ \E p \in Procs, delivered \in BOOLEAN : ResendUpdate(p, delivered)
    \/ \E p \in Procs, e \in LoginEmails, pw \in Passwords : LoginStart(p, e, pw)
    \/ \E p \in Procs : LoginSession(p)
    \/ \E p \in Procs, k \in {"invalid", "noemail", "ok"}, g \in GoogleSubs,
          e \in GoogleEmails, pic \in AssertedPictures :
            GoogleStart(p, k, g, e, pic)
    \/ \E p \in Procs, u \in GeneratedUsernames(nEvents) : GoogleFindEmail(p, u)
    \/ \E p \in Procs : GoogleLink(p)
    \/ \E p \in Procs : GoogleCreate(p)
    \/ \E p \in Procs : GoogleSession(p)
    \/ \E p \in Procs, c \in Cookies : RefreshStart(p, c)
    \/ \E p \in Procs : RefreshDeleteExpired(p)
    \/ \E p \in Procs : RefreshDelete(p)
    \/ \E p \in Procs : RefreshCreate1(p)
    \/ \E p \in Procs : RefreshCreate2(p)
    \/ \E p \in Procs, c \in Cookies : Logout(p, c)
    \/ \E p \in Procs, t \in Bearers : DeleteSelf(p, t)
    \/ \E id \in 1..MaxUsers : Onboard(id)
    \/ Cleanup
    \/ \E d \in TickSteps : Tick(d)

Spec == Init /\ [][Next]_vars

\* ============================================================ expert routes
\* JSON.stringify(expert) as stored under the key, and JSON.parse of it
Stringify(v) == <<"json", v>>
Parse(j) == j[2]

EFree(p) == ereq[p].pc \in {"idle", "done"}
\* a PUT has updated the row and not yet answered
PutInFlight == \E q \in Procs : ereq[q].op = "put" /\ ereq[q].pc = "p_del"
\* the row holds what a PUT wrote, and every PUT that wrote has deleted the
\* key and answered
PutCompleted == profile # None /\ Val(profile) > 0 /\ ~PutInFlight

\* tx.expertProfile.create of a registration as EXPERT (part_008 lines
\* 96-109): the row the routes serve, with its first headline and bio
CreateProfile ==
    /\ profile = None
    /\ profile' = Some(0)
    /\ UNCHANGED <<cache, ereq, nPuts>>
    /\ UNCHANGED authVars

\* GET /:id up to the answer of redis.get (part_007 lines 63-72): a hit is
\* returned as parsed. For the claims the slot notes what the row held when
\* the request started and whether the updates so far had completed
GetStart(p) ==
    /\ EFree(p)
    /\ LET r == [IdleEReq EXCEPT !.op = "get", !.afterPut = PutCompleted,
                                  !.atStart = profile]
       IN ereq' = [ereq EXCEPT ![p] =
            IF cache # None
            THEN [r EXCEPT !.pc = "done", !.status = 200,
                           !.result = Some(Parse(Val(cache)))]
            ELSE [r EXCEPT !.pc = "g_db"]]
    /\ UNCHANGED <<profile, cache, nPuts>>
    /\ UNCHANGED authVars

\* prisma.expertProfile.findUnique and the 404 (part_007 lines 75-85)
GetRead(p) ==
    /\ ereq[p].op = "get" /\ ereq[p].pc = "g_db"
    /\ ereq' = [ereq EXCEPT ![p] =
          IF profile = None
          THEN [@ EXCEPT !.pc = "done", !.status = 404]
          ELSE [@ EXCEPT !.pc = "g_set", !.held = profile]]
    /\ UNCHANGED <<profile, cache, nPuts>>
    /\ UNCHANGED authVars

\* redis.set(cacheKey, JSON.stringify(expert), 'EX', 3600) and the reply
\* (part_007 lines 89-91)
GetSet(p) ==
    /\ ereq[p].op = "get" /\ ereq[p].pc = "g_set"
    /\ cache' = Some(Stringify(Val(ereq[p].held)))
    /\ ereq' = [ereq EXCEPT ![p] =
          [@ EXCEPT !.pc = "done", !.status = 200, !.result = ereq[p].held]]
    /\ UNCHANGED <<profile, nPuts>>
    /\ UNCHANGED authVars

\* PUT /:id of a request that passed authenticate and authorize, up to
\* prisma.expertProfile.update (part_007 lines 101-109); the body is a
\* headline and bio not sent before. A GET in flight is marked as having
\* run beside an update
PutStart(p) ==
    /\ EFree(p)
    /\ nPuts < MaxPuts
    /\ nPuts' = nPuts + 1
    /\ IF profile = None
       THEN \* record to update not found: the update throws
            /\ ereq' = [ereq EXCEPT ![p] =
                  [IdleEReq EXCEPT !.op = "put", !.pc = "done", !.status = 500]]
            /\ UNCHANGED profile
       ELSE /\ profile' = Some(nPuts + 1)
            /\ ereq' = [q \in Procs |->
                  IF q = p
                  THEN [IdleEReq EXCEPT !.op = "put", !.pc = "p_del",
                                        !.held = Some(nPuts + 1)]
                  ELSE IF ereq[q].op = "get" /\ ereq[q].pc # "done"
                  THEN [ereq[q] EXCEPT !.disturbed = TRUE]
                  ELSE ereq[q]]
    /\ UNCHANGED cache
    /\ UNCHANGED authVars

\* redis.del of the key and the reply (part_007 lines 113-115)
PutDel(p) ==
    /\ ereq[p].op = "put" /\ ereq[p].pc = "p_del"
    /\ cache' = None
    /\ ereq' = [ereq EXCEPT ![p] =
          [@ EXCEPT !.pc = "done", !.status = 200, !.result = ereq[p].held]]
    /\ UNCHANGED <<profile, nPuts>>
    /\ UNCHANGED authVars

\* the key reaches its time to live ('EX', 3600)
CacheExpire ==
    /\ cache # None
    /\ cache' = None
    /\ UNCHANGED <<profile, ereq, nPuts>>
    /\ UNCHANGED authVars

NextCache ==
    \/ CreateProfile
    \/ \E p \in Procs : GetStart(p)
    \/ \E p \in Procs : GetRead(p)
    \/ \E p \in Procs : GetSet(p)
    \/ \E p \in Procs : PutStart(p)
    \/ \E p \in Procs : PutDel(p)
    \/ CacheExpire

SpecCache == Init /\ [][NextCache]_vars

\* ================================================================== claims
IsDone(p, op) == req[p].op = op /\ req[p].pc = "done"
Cleared(ck, path) == ck.act = "clear" /\ ck.path = path
\* this step accepts a request of kind op into slot p
Accepted(p, op) ==
    /\ nEvents' = nEvents + 1 /\ now' = now
    /\ Free(p) /\ \A q \in Procs : q < p => ~Free(q)
    /\ req'[p].op = op
\* this step is the register transaction of slot p committing
Registered(p) ==
    /\ req[p].op = "register" /\ req[p].pc = "reg_create"
    /\ req'[p].pc = "done" /\ req'[p].status = 201

\* C1: once a refresh presenting secret s has answered 200, no RefreshSession
\* row with the hash of s exists in any later state, and every refresh that
\* presents s afterwards is answered 401 at its lookup.
C1_UsedSecretRejected ==
    /\ \A s \in hist.usedOk : ~HashTaken(Sha256(s))
    /\ \A p \in Procs :
         (req[p].op = "refresh" /\ req[p].replay)
            => (req[p].pc = "done" /\ req[p].status = 401 /\ ~req[p].sawRow)

\* a refresh replaying an already successfully used secret has been answered
C1_Witness ==
    \E p \in Procs : IsDone(p, "refresh") /\ req[p].replay /\ req[p].status = 401

\* C2: of two refresh requests that present the same secret and are handled
\* concurrently, at most one succeeds, each ends in 200 or 401 and no other
\* error, and at most one of them creates a replacement session.
C2_RaceLoserUnauthorized ==
    \A p, q \in Procs :
        (/\ p # q
         /\ IsDone(p, "refresh") /\ IsDone(q, "refresh")
         /\ req[p].secret # None /\ req[p].secret = req[q].secret
         /\ req[p].sawRow /\ req[q].sawRow)
        => /\ ~(req[p].status = 200 /\ req[q].status = 200)
           /\ {req[p].status, req[q].status} \subseteq {200, 401}
           /\ ~(req[p].newSecret # None /\ req[q].newSecret # None)

\* C3: a refresh that found a live row and removed it answers 200, sets both
\* cookies, and leaves exactly the replacement row whose tokenHash is the hash
\* of the secret in the refreshToken cookie; the old row is never gone without
\* the client holding the replacement.
C3_RotationDeliversReplacement ==
    \A p \in Procs :
        (/\ IsDone(p, "refresh") /\ req[p].sawRow /\ ~req[p].sawExpired
         /\ req[p].newSecret # None)
        => /\ req[p].status = 200
           /\ req[p].ckAccess.act = "set" /\ req[p].ckRefresh.act = "set"
           /\ req[p].atOut # None
           /\ Val(req[p].newSecret) \in jar
           /\ Val(req[p].row) \notin sessions

\* C4: an account whose deleteSelf has committed owns no RefreshSession row,
\* and no request issues a session or access token for it afterwards.
C4_DeletedAccountHasNoSession ==
    /\ \A s \in sessions : users[s.userId].deletedAt = None
    /\ \A p \in Procs : req[p].atOut # None => ~req[p].sawDeleted

\* C5: every soft-deleted account has passwordHash, googleId,
\* emailVerificationToken and passwordResetToken all null.
C5_DeletedAccountAnonymized ==
    \A i \in UserIds :
        users[i].deletedAt # None
        => /\ users[i].passwordHash = None
           /\ users[i].googleId = None
           /\ users[i].emailVerificationToken = None
           /\ users[i].passwordResetToken = None

\* C6: a login with an unregistered email, with an account that has no
\* password hash, or with a wrong password is answered 401 with the one
\* generic InvalidCredentials body.
C6_LoginFailuresIndistinguishable ==
    \A p \in Procs :
        (IsDone(p, "login")
         /\ req[p].tag \in {"unknown-email", "no-hash", "wrong-password"})
        => (req[p].status = 401 /\ req[p].msg = "Invalid credentials")

\* C7: a login with the correct password for an account whose email is not
\* verified is answered 403 EmailUnverified, never 401, creates no
\* RefreshSession and sets no cookie.
C7_UnverifiedLoginRejected ==
    \A p \in Procs :
        (req[p].op = "login" /\ req[p].tag = "correct-password"
         /\ req[p].sawUnverified)
        => /\ req[p].pc = "done"
           /\ req[p].status = 403
           /\ req[p].msg = "Email not verified. Please check your inbox."
           /\ req[p].newSecret = None /\ req[p].atOut = None
           /\ req[p].ckAccess = NoCookie /\ req[p].ckRefresh = NoCookie

\* a login with the correct password was refused for an unverified account
C7_Witness ==
    \E p \in Procs :
        /\ IsDone(p, "login") /\ req[p].tag = "correct-password"
        /\ req[p].sawUnverified /\ req[p].status = 403

\* C8: a login whose account row is soft-deleted is answered 403
\* AccountDisabled.
C8_DeletedLoginDisabled ==
    \A p \in Procs :
        (IsDone(p, "login") /\ req[p].sawDeleted)
        => (req[p].status = 403 /\ req[p].msg = "Account is disabled or deleted.")

\* C9: once a logout presenting secret s has completed, no RefreshSession row
\* with the hash of s exists in any later state, and every refresh that
\* presents s afterwards is answered 401.
C9_LoggedOutSecretRejected ==
    /\ \A s \in hist.loggedOut : ~HashTaken(Sha256(s))
    /\ \A p \in Procs :
         (req[p].op = "refresh" /\ req[p].afterLogout)
            => (req[p].pc = "done" /\ req[p].status = 401 /\ ~req[p].sawRow)

\* a refresh presenting a secret whose live row a logout removed was answered
C9_Witness ==
    \E p \in Procs :
        /\ IsDone(p, "refresh") /\ req[p].afterLogout /\ req[p].status = 401
        /\ Val(req[p].secret) \in hist.revoked

\* C10: a refresh that found an expired row is answered 401 SessionExpired
\* with both cookies cleared, the row is gone, and it creates no session and
\* no access token.
C10_ExpiredRefreshRejected ==
    \A p \in Procs :
        (IsDone(p, "refresh") /\ req[p].sawExpired)
        => /\ req[p].status = 401 /\ req[p].msg = "Session expired"
           /\ Cleared(req[p].ckAccess, RootPath)
           /\ Cleared(req[p].ckRefresh, RefreshPath)
           /\ Val(req[p].row) \notin sessions
           /\ req[p].newSecret = None /\ req[p].atOut = None

\* C11: refreshing in sequence, each time with the secret the previous call
\* delivered, yields pairwise distinct secrets, and whenever no request is in
\* flight the most recently delivered secret of a chain (not yet used, not
\* logged out, not expired, its account not deleted) is the one accepted,
\* while every secret used before is rejected.
C11_ChainLatestAccepted ==
    /\ \A i, j \in hist.issued : i.secret = j.secret => i = j
    /\ \A s \in hist.usedOk : ~HashTaken(Sha256(s))
    /\ (\A p \in Procs : Free(p)) =>
         \A i \in hist.issued :
            (/\ i.secret \notin hist.usedOk /\ i.secret \notin hist.loggedOut
             /\ users[i.userId].deletedAt = None
             /\ now <= i.expiresAt)
            => HashTaken(Sha256(i.secret))

\* C12: a deleteSelf for an account that is already soft-deleted answers 200
\* and changes no account row and no RefreshSession row.
C12_DeleteSelfIdempotent ==
    [][\A p \in Procs :
          (/\ Accepted(p, "deleteSelf") /\ req'[p].uid # None
           /\ users[Val(req'[p].uid)].deletedAt # None)
          => /\ req'[p].pc = "done" /\ req'[p].status = 200
             /\ users' = users /\ sessions' = sessions]_vars

\* a deleteSelf was answered for an account that was already soft-deleted
C12_Witness ==
    \E p \in Procs :
        /\ IsDone(p, "deleteSelf") /\ req[p].sawDeleted /\ req[p].status = 200
        /\ users[Val(req[p].uid)].deletedAt # None

\* C13: a soft-deleted row holds neither a real email nor a username the
\* generator can return, so a register answered 409 never met a deleted row,
\* and the email and username an anonymization freed can be taken again.
C13_AnonymizedFreesEmailAndUsername ==
    /\ \A i \in UserIds :
          users[i].deletedAt # None
          => /\ users[i].email \notin Emails
             /\ users[i].username \notin
                   Dictionary \cup {"user_" \o ToString(n) : n \in 0..MaxEvents}
             /\ \A f \in hist.freed :
                   users[i].email # f.email /\ users[i].username # f.username
    /\ \A p \in Procs :
          (IsDone(p, "register") /\ req[p].status = 409) => ~req[p].sawDeleted

\* a registration was accepted with an email and a username that an
\* anonymized account held before
C13_Witness ==
    \E p \in Procs, f \in hist.freed :
        /\ IsDone(p, "register") /\ req[p].status = 201
        /\ req[p].email = f.email /\ req[p].username = f.username
        /\ users[Val(req[p].uid)].email = f.email
        /\ users[Val(req[p].uid)].username = f.username

\* C14: every authenticated deleteSelf response clears accessToken at path /
\* and refreshToken at path /api/auth/refresh, the paths they were set with.
C14_DeleteSelfClearsCookiesAsSet ==
    \A p \in Procs :
        (IsDone(p, "deleteSelf") /\ req[p].uid # None)
        => /\ Cleared(req[p].ckAccess, RootPath)
           /\ Cleared(req[p].ckRefresh, RefreshPath)

\* C15: no two accounts share a non-null verification token, and the account
\* a registration creates gets a token no other account holds and an expiry
\* exactly 24 hours after its creation.
C15_VerificationTokenUniqueAndTimed ==
    /\ [](\A i, j \in UserIds :
             (i # j /\ users[i].emailVerificationToken # None)
             => users[i].emailVerificationToken # users[j].emailVerificationToken)
    /\ [][\A p \in Procs :
             Registered(p)
             => LET id == Len(users) + 1
                IN /\ Len(users') = id /\ req'[p].uid = Some(id)
                   /\ users'[id].emailVerificationToken # None
                   /\ \A j \in UserIds :
                         users'[j].emailVerificationToken
                            # users'[id].emailVerificationToken
                   /\ users'[id].emailVerificationExpiresAt = Some(now + VerifyTtl)
                   /\ users'[id].emailVerifiedAt = None]_vars

\* a registration created an account while another account held a token
C15_Witness ==
    \E p \in Procs, j \in UserIds :
        /\ IsDone(p, "register") /\ req[p].status = 201
        /\ j # Val(req[p].uid)
        /\ users[j].emailVerificationToken # None
        /\ users[Val(req[p].uid)].emailVerificationToken = req[p].token

\* C16: verify-email with a token that matches an account whose stored expiry
\* is in the past answers 400 with code TOKEN_EXPIRED and leaves the account
\* as it was (token in place, emailVerifiedAt unchanged).
C16_ExpiredTokenRejected ==
    [][\A p \in Procs :
          (/\ Accepted(p, "verify")
           /\ LET f == FindUserByToken(Val(req'[p].token))
              IN /\ f # None
                 /\ users[Val(f)].emailVerificationExpiresAt # None
                 /\ Val(users[Val(f)].emailVerificationExpiresAt) < now)
          => /\ req'[p].pc = "done" /\ req'[p].status = 400
             /\ req'[p].msg = "TOKEN_EXPIRED"
             /\ users' = users]_vars

\* an expired token of an unverified account was presented and refused
C16_Witness ==
    \E p \in Procs :
        /\ IsDone(p, "verify") /\ req[p].sawExpired /\ req[p].status = 400
        /\ users[Val(req[p].uid)].emailVerificationToken = req[p].token
        /\ users[Val(req[p].uid)].emailVerifiedAt = None

\* C17: a verification token that a verification consumed or a resend
\* replaced is held by no row afterwards, and a verify-email presenting it
\* is answered 400 InvalidToken and changes nothing.
C17_SpentTokenUnusable ==
    /\ [](\A t \in hist.spent : FindUserByToken(t) = None)
    /\ [][\A p \in Procs :
             (Accepted(p, "verify") /\ Val(req'[p].token) \in hist.spent)
             => /\ req'[p].pc = "done" /\ req'[p].status = 400
                /\ req'[p].msg = "Invalid or expired token"
                /\ users' = users /\ sessions' = sessions]_vars

\* a consumed or replaced token was presented again and refused
C17_Witness ==
    \E p \in Procs :
        /\ IsDone(p, "verify") /\ req[p].replay /\ req[p].status = 400
        /\ req[p].msg = "Invalid or expired token"

\* C18: resend-verification for an email no row holds and for an already
\* verified account answers at once with the 200 and the generic message an
\* unverified account gets, changes no row and sends no mail.
C18_ResendIndistinguishable ==
    /\ [](\A p \in Procs :
             (IsDone(p, "resend")
              /\ (req[p].tag \in {"nonexistent", "verified"} \/ req[p].mailed))
             => (req[p].status = 200 /\ req[p].msg = ResendMsg))
    /\ [][\A p \in Procs :
             (/\ Accepted(p, "resend")
              /\ LET f == FindUserByEmail(req'[p].email)
                 IN f = None \/ users[Val(f)].emailVerifiedAt # None)
             => /\ req'[p].pc = "done" /\ ~req'[p].mailed
                /\ users' = users /\ mail' = mail /\ nextToken' = nextToken]_vars

\* a resend for an already verified account was answered, after some
\* verification mail has gone out
C18_Witness ==
    \E p \in Procs :
        /\ IsDone(p, "resend") /\ req[p].tag = "verified" /\ ~req[p].mailed
        /\ req[p].status = 200
        /\ mail # {}

C20_DuplicateRegisterConflict ==
    \A p \in Procs :
        (/\ IsDone(p, "register") /\ req[p].status \notin {201, 400}
         /\ FindUserByEmail(req[p].email) # None)
        => req[p].status = 409

\* C21: an account registered with initialRole EXPERT or ORGANIZATION has
\* the matching persona row in every reachable state in which the account
\* is in the table, and a registration whose persona creation fails leaves
\* the User table as it was.
C21_RegistrationAllOrNothing ==
    /\ [](\A h \in hist.initialRole :
             h.id \in UserIds
             => /\ h.initialRole = "EXPERT" => users[h.id].expertProfile
                /\ h.initialRole = "ORGANIZATION"
                      => users[h.id].organizationProfile)
    /\ [][\A p \in Procs :
             (/\ req[p].op = "register" /\ req[p].pc = "reg_create"
              /\ req'[p].pc = "done" /\ req'[p].tag = "persona-failed")
             => /\ users' = users
                /\ req'[p].status = 500]_vars

\* one registration as ORGANIZATION has committed with its persona row and
\* another, as EXPERT, failed at the persona create and left no row
C21_Witness ==
    \E p \in Procs :
        /\ IsDone(p, "register") /\ req[p].tag = "persona-failed"
        /\ req[p].role = "EXPERT"
        /\ FindUserByEmail(req[p].email) = None
        /\ \E h \in hist.initialRole :
              h.initialRole = "ORGANIZATION" /\ users[h.id].organizationProfile

\* C22: when the mailer fails in register or resend-verification the request
\* still answers 201 / 200, and the row and the token the handler had
\* committed before it called the mailer are in place.
C22_MailFailureNotSurfaced ==
    [][\A p \in Procs :
         (/\ req[p].pc \in {"reg_create", "resend_update"}
          /\ req'[p].pc = "done" /\ req'[p].tag = "mail-failed")
         => /\ req'[p].status = (IF req[p].op = "register" THEN 201 ELSE 200)
            /\ req'[p].uid # None /\ req'[p].token # None
            /\ Val(req'[p].token) = nextToken'
            /\ nextToken' = nextToken + 1
            /\ users'[Val(req'[p].uid)].emailVerificationToken = req'[p].token
            /\ users'[Val(req'[p].uid)].emailVerificationExpiresAt
                  = Some(now + VerifyTtl)
            /\ (req[p].op = "register"
                  => /\ Len(users') = Len(users) + 1
                     /\ users'[Len(users')].email = req[p].email)]_vars

\* a resend-verification has answered 200 although the mailer failed, and
\* the account holds the token the request stored, issued after the
\* registration's
C22_Witness ==
    \E p \in Procs :
        /\ IsDone(p, "resend") /\ req[p].tag = "mail-failed" /\ req[p].status = 200
        /\ ~req[p].mailed
        /\ users[Val(req[p].uid)].emailVerificationToken = req[p].token
        /\ Val(req[p].token) > 1

\* C23: a register request whose email fails validation (syntax, disposable
\* domain, no mail-exchange record) is answered 400 at once and changes
\* nothing: no row, no token drawn, no mail; no row ever holds such an email.
C23_BadEmailRegistrationRejected ==
    /\ [](\A i \in UserIds : users[i].email \notin BadEmails)
    /\ [](\A m \in mail : m.to \notin BadEmails)
    /\ [][\A p \in Procs :
             (Accepted(p, "register") /\ req'[p].email \in BadEmails)
             => /\ req'[p].pc = "done" /\ req'[p].status = 400
                /\ users' = users /\ nextToken' = nextToken
                /\ mail' = mail /\ sessions' = sessions]_vars

\* a registration with an address whose domain has no mail-exchange record
\* has been answered 400 with the validator's reason
C23_Witness ==
    \E p \in Procs :
        /\ IsDone(p, "register") /\ req[p].status = 400
        /\ req[p].email = "d@nomx.test"
        /\ req[p].body = [message |-> "Domain cannot receive emails",
                          error |-> "Email Validation Failed"]
        /\ FindUserByEmail(req[p].email) = None

\* C24: at the step that inserts the User row, for register and for Google
\* sign-in, no existing row holds the username the generator returned.
C24_UsernameFreeAtInsert ==
    [][\A p \in Procs :
         (req[p].pc \in {"reg_create", "g_create"} /\ req'[p].pc # req[p].pc)
         => FindUserByUsername(req[p].username) = None]_vars

\* C25: Google sign-in uses the row holding the asserted subject id as it
\* is; else the row holding the asserted email, which gets the subject id,
\* emailVerifiedAt and, when the row the lookup returned had no avatar, the
\* asserted picture; else it creates a verified row with the generated
\* username, the subject id and no password hash. No two rows hold the same
\* googleId.
C25_GoogleResolutionOrder ==
    /\ [](\A i, j \in UserIds :
             (i # j /\ users[i].googleId # None)
             => users[i].googleId # users[j].googleId)
    /\ [][\A p \in Procs :
             /\ (Accepted(p, "google") /\ req'[p].tag = "by-googleId")
                  => /\ users[Val(req'[p].uid)].googleId = Some(req'[p].sub)
                     /\ users' = users
             /\ (Accepted(p, "google") /\ req'[p].pc = "g_find_email")
                  => FindUserByGoogleId(req'[p].sub) = None
             /\ (req[p].pc = "g_find_email" /\ req'[p].pc = "g_link")
                  => /\ users[Val(req'[p].uid)].email = req[p].email
                     /\ users' = users
             /\ (req[p].pc = "g_find_email" /\ req'[p].pc = "g_create")
                  => /\ FindUserByEmail(req[p].email) = None
                     /\ req'[p].username \in GeneratedUsernames(nEvents)
                     /\ users' = users
             /\ (req[p].pc = "g_link" /\ req'[p].tag = "by-email")
                  => LET id == Val(req[p].uid)
                     IN /\ Len(users') = Len(users)
                        /\ users'[id].googleId = Some(req[p].sub)
                        /\ users'[id].emailVerifiedAt = Some(now)
                        /\ users'[id].avatarUrl =
                              (IF req[p].sawAvatar # None THEN req[p].sawAvatar
                               ELSE Some(req[p].picture))
                        /\ users'[id].passwordHash = users[id].passwordHash
                        /\ \A j \in UserIds \ {id} : users'[j] = users[j]
             /\ (req[p].pc = "g_create" /\ req'[p].pc = "g_session")
                  => LET u == users'[Len(users')]
                     IN /\ Len(users') = Len(users) + 1
                        /\ req'[p].uid = Some(Len(users'))
                        /\ u.email = req[p].email
                        /\ u.googleId = Some(req[p].sub)
                        /\ u.emailVerifiedAt = Some(now)
                        /\ u.username = req[p].username
                        /\ u.passwordHash = None
                        /\ u.avatarUrl = Some(req[p].picture)
                        /\ \A j \in UserIds : users'[j] = users[j]]_vars

\* a sign-in has linked its subject id onto the row holding its email, and
\* the row kept the avatar it had, which is not the asserted picture
C25_Witness ==
    \E p \in Procs :
        /\ req[p].op = "google" /\ req[p].tag = "by-email"
        /\ req[p].sawAvatar # None /\ req[p].sawAvatar # Some(req[p].picture)
        /\ users[Val(req[p].uid)].avatarUrl = req[p].sawAvatar
        /\ users[Val(req[p].uid)].googleId = Some(req[p].sub)
        /\ users[Val(req[p].uid)].emailVerifiedAt # None

\* C26: a Google sign-in whose resolved row is soft-deleted is answered 403
\* and has created no session row, signed no access token and set no cookie.
C26_DeletedGoogleRejected ==
    \A p \in Procs :
        (req[p].op = "google" /\ req[p].resolvedDeleted)
        => /\ req[p].pc = "done" /\ req[p].status = 403
           /\ req[p].msg = "Account is disabled."
           /\ req[p].newSecret = None /\ req[p].atOut = None
           /\ req[p].ckAccess = NoCookie /\ req[p].ckRefresh = NoCookie
           /\ \A s \in sessions : s.userId # Val(req[p].uid)

\* a Google sign-in resolved, by email, a row that had been soft-deleted
\* after the lookup, and was answered 403
C26_Witness ==
    \E p \in Procs :
        /\ IsDone(p, "google") /\ req[p].resolvedDeleted
        /\ req[p].status = 403
        /\ users[Val(req[p].uid)].deletedAt # None

\* C27: a response body has only the fields message, error, code,
\* isUnverified, statusCode and user, and user only id, email, username,
\* avatarUrl and roles: no field carries an access token, a refresh secret
\* or a verification token. A RefreshSession row stores the SHA-256 hash of
\* a secret, and every secret a client holds was delivered by an issuance,
\* in its cookie.
C27_NoTokenInBodyOrStore ==
    /\ \A p \in Procs :
         req[p].pc = "done"
         => /\ DOMAIN req[p].body \subseteq
                  {"message", "error", "code", "isUnverified", "statusCode", "user"}
            /\ ("user" \in DOMAIN req[p].body
                  => DOMAIN req[p].body.user
                        = {"id", "email", "username", "avatarUrl", "roles"})
            /\ (req[p].newSecret # None /\ req[p].status = 200
                  => req[p].ckRefresh.act = "set")
    /\ \A s \in sessions : s.tokenHash \in {Sha256(k) : k \in 1..nextSecret}
    /\ \A k \in jar : \E i \in hist.issued : i.secret = k

\* a login has answered 200 with the user descriptor in its body, the secret
\* in its cookie and the hash of the secret in the RefreshSession table
C27_Witness ==
    \E p \in Procs :
        /\ IsDone(p, "login") /\ req[p].status = 200
        /\ DOMAIN req[p].body = {"message", "user"}
        /\ req[p].body.user.id = Val(req[p].uid)
        /\ Val(req[p].newSecret) \in jar
        /\ HashTaken(Sha256(Val(req[p].newSecret)))

\* C28: the step that completes a login adds exactly one RefreshSession row,
\* owned by the account, with the hash of the secret set in the refreshToken
\* cookie and the expiry now + 7 days; a login answered at its checks is
\* answered 401 or 403, adds no row and sets no cookie.
C28_LoginSessionRow ==
    [][\A p \in Procs :
         /\ (/\ req[p].op = "login" /\ req[p].pc = "login_session"
             /\ req'[p].pc = "done")
              => LET row == [userId |-> Val(req[p].uid),
                             tokenHash |-> Sha256(Val(req'[p].newSecret)),
                             expiresAt |-> now + SessionTtl]
                 IN /\ req'[p].status = 200
                    /\ row \notin sessions
                    /\ sessions' = sessions \cup {row}
                    /\ req'[p].ckRefresh.act = "set"
                    /\ jar' = jar \cup {Val(req'[p].newSecret)}
         /\ (Accepted(p, "login") /\ req'[p].pc = "done")
              => /\ req'[p].status \in {401, 403}
                 /\ sessions' = sessions
                 /\ req'[p].ckAccess = NoCookie /\ req'[p].ckRefresh = NoCookie
                 /\ jar' = jar /\ accessTokens' = accessTokens]_vars

\* a login has answered 200 and the row with the hash of its secret, owned
\* by its account and expiring 7 days later, is in the table
C28_Witness ==
    \E p \in Procs :
        /\ IsDone(p, "login") /\ req[p].status = 200
        /\ [userId |-> Val(req[p].uid),
            tokenHash |-> Sha256(Val(req[p].newSecret)),
            expiresAt |-> now + SessionTtl] \in sessions

\* C29: the step that completes a successful login sets the account's
\* lastLogin to the time of the login.
C29_LoginUpdatesLastLogin ==
    [][\A p \in Procs :
         (/\ req[p].op = "login" /\ req[p].pc = "login_session"
          /\ req'[p].pc = "done" /\ req'[p].status = 200)
         => users'[Val(req[p].uid)].lastLogin = Some(now)]_vars

\* C30: the roles a refresh signs into its access token are those of the
\* persona rows its account has, also when a persona was added after the
\* token of the login was issued.
C30_RefreshRolesRederived ==
    \A p \in Procs :
        /\ (req[p].op = "refresh" /\ req[p].roles # None)
             => Val(req[p].roles) = Roles(users[Val(req[p].uid)])
        /\ (IsDone(p, "refresh") /\ req[p].status = 200)
             => Val(req[p].atOut).roles = Roles(users[Val(req[p].uid)])

\* a refresh has answered 200 with isExpert set for an account that became
\* an expert after its sign-in, whose access token says it is none
C30_Witness ==
    \E p \in Procs :
        /\ IsDone(p, "refresh") /\ req[p].status = 200
        /\ Val(req[p].atOut).roles.isExpert
        /\ \E at \in accessTokens :
              at.id = Val(req[p].uid) /\ ~at.roles.isExpert

\* C31: sessions are independent: the step of a login or Google sign-in that
\* creates a session removes no RefreshSession row, and every step of a
\* refresh or logout leaves in the table every row whose hash is not that of
\* the secret the request presented, whichever account owns it.
C31_SessionsIndependent ==
    [][\A p \in Procs :
         /\ (req[p].pc \in {"login_session", "g_session"} /\ req'[p] # req[p])
              => sessions \subseteq sessions'
         /\ (req[p].op = "refresh" /\ req[p].pc \notin {"idle", "done"}
                 /\ req'[p] # req[p])
              => \A s \in sessions :
                    s.tokenHash # Sha256(Val(req[p].secret)) => s \in sessions'
         /\ Accepted(p, "refresh") => sessions' = sessions
         /\ Accepted(p, "logout")
              => \A s \in sessions :
                    (req'[p].secret = None
                       \/ s.tokenHash # Sha256(Val(req'[p].secret)))
                    => s \in sessions']_vars

\* a refresh has deleted the row of the secret it presented while the same
\* account holds another session, which is still in the table
C31_Witness ==
    \E p \in Procs :
        /\ req[p].op = "refresh" /\ req[p].pc = "rf_create1"
        /\ Val(req[p].row) \notin sessions
        /\ \E s \in sessions :
              /\ s.userId = Val(req[p].uid)
              /\ s.tokenHash # Sha256(Val(req[p].secret))

\* C32: a logout sent by a client that holds the refreshToken cookie of a
\* live session and honours cookie paths carries that cookie, and the step
\* deletes the session's row.
C32_BrowserLogoutDeletesSession ==
    [][\A p \in Procs : \A s \in jar :
         (/\ Accepted(p, "logout")
          /\ req'[p].secret = BrowserSends(s, LogoutPath)
          /\ HashTaken(Sha256(s)))
         => /\ req'[p].secret = Some(s)
            /\ \A row \in sessions' : row.tokenHash # Sha256(s)]_vars

\* C33: an account whose emailVerifiedAt is set holds no verification token.
C33_VerifiedHoldsNoToken ==
    \A i \in UserIds :
        users[i].emailVerifiedAt # None => users[i].emailVerificationToken = None

\* C34: the step in which a Google sign-in is rejected with 400, 401 or 403
\* changes no Account row and no RefreshSession row.
C34_RejectedGoogleWritesNothing ==
    [][\A p \in Procs :
         (/\ req'[p].op = "google" /\ req'[p].pc = "done" /\ req'[p] # req[p]
          /\ req'[p].status \in {400, 401, 403})
         => users' = users /\ sessions' = sessions]_vars

\* C39: a first-time Google sign-in that reaches its create after another
\* request made the account of the same subject id continues with that
\* account: no second row, no error.
C39_ConcurrentFirstSignIn ==
    [][\A p \in Procs :
         (/\ req[p].op = "google" /\ req[p].pc = "g_create" /\ req'[p] # req[p]
          /\ FindUserByGoogleId(req[p].sub) # None)
         => /\ req'[p].pc = "g_session"
            /\ req'[p].uid = FindUserByGoogleId(req[p].sub)
            /\ users' = users]_vars

\* C35: a password login answers 200 only for an account whose email
\* ownership was proven with its verification token: a password registered
\* before a Google identity was linked by email match does not log in.
C35_PasswordLoginNeedsProof ==
    \A p \in Procs :
        (IsDone(p, "login") /\ req[p].status = 200)
        => Val(req[p].uid) \in hist.proven

\* C36: a row leaves the User table only when its emailVerifiedAt is null,
\* it was created more than 24 hours ago and it is not soft-deleted; every
\* soft-deleted row is verified, so none is ever removed.
C36_CleanupOnlyStaleUnverified ==
    /\ [](\A i \in UserIds :
            users[i].deletedAt # None => users[i].emailVerifiedAt # None)
    /\ [][\A i \in UserIds :
            i \notin UserIds'
            => /\ users[i].emailVerifiedAt = None
               /\ users[i].createdAt + CleanupAge < now
               /\ users[i].deletedAt = None]_vars

\* the job has removed a row while a verified account created more than 24
\* hours ago is still in the table
C36_Witness ==
    /\ \E i \in DOMAIN users : users[i].removed
    /\ \E j \in UserIds :
          /\ users[j].emailVerifiedAt # None
          /\ users[j].createdAt + CleanupAge < now

\* C37: no step removes an account that holds a verification token whose
\* stored expiry has not passed.
C37_UnexpiredTokenSurvivesCleanup ==
    [][\A i \in UserIds :
         (/\ users[i].emailVerificationToken # None
          /\ ~TokenExpired(users[i]))
         => i \in UserIds']_vars

\* C38: a GET of the expert profile that starts after the updates so far
\* have completed, and during which no update starts, returns the profile
\* as the last update left it, also when an earlier GET ran beside that
\* update.
C38_CacheCoherentAfterUpdate ==
    \A p \in Procs :
        (/\ ereq[p].op = "get" /\ ereq[p].pc = "done" /\ ereq[p].status = 200
         /\ ereq[p].afterPut /\ ~ereq[p].disturbed)
        => ereq[p].result = ereq[p].atStart

====
